---- MODULE Spec2Model ----
(***************************************************************************)
(* Social-mention webhook: the Express controller (verifyWebhook,          *)
(* processWebhook) with its Facebook / Instagram services, and the two     *)
(* standalone servers (webhook-server.js and its later revision).          *)
(*                                                                         *)
(* JavaScript strings that the code searches or lower-cases (comment text, *)
(* usernames, page names, page ids) are sequences of one-character         *)
(* strings; all other strings (tokens, query parameters, field names) are  *)
(* TLA+ strings.  undefined is Undefined, resp. UndefinedSeq.              *)
(***************************************************************************)
EXTENDS Naturals, Sequences, FiniteSets

VARIABLES server, config, facebookPages, instagramAccounts, envVerifyToken,
          req, res, pc, idx, entry, cidx, change, cur, mention,
          calls, lastToken, emails, mailed, failedEntry

vars == <<server, config, facebookPages, instagramAccounts, envVerifyToken,
          req, res, pc, idx, entry, cidx, change, cur, mention,
          calls, lastToken, emails, mailed, failedEntry>>

registry == <<server, config, facebookPages, instagramAccounts, envVerifyToken>>

(* ------------------------------ bounds -------------------------------- *)

\* entries of one POST body
MaxEntries == 2
\* changes of one entry
MaxChanges == 2
\* words a comment text is made of
MaxWords == 2

(* --------------------------- JavaScript values ------------------------ *)

Undefined == "undefined"
UndefinedSeq == <<"undefined">>
Null == "null"

\* JavaScript truthiness of a string-or-undefined value
Truthy(v) == v # Undefined /\ v # ""
TruthySeq(s) == s # UndefinedSeq /\ s # <<>>

\* String.prototype.includes
Includes(text, pat) ==
    \E i \in 0..Len(text) :
        /\ i + Len(pat) <= Len(text)
        /\ SubSeq(text, i + 1, i + Len(pat)) = pat

LowerChar(c) ==
    CASE c = "A" -> "a"
      [] c = "B" -> "b"
      [] c = "P" -> "p"
      [] OTHER -> c

\* String.prototype.toLowerCase
ToLowerCase(s) == [i \in 1..Len(s) |-> LowerChar(s[i])]

\* the template literal `@${name}`
At(name) == <<"@">> \o name
\* the template literal `@[${id}]`
AtBracket(id) == <<"@", "[">> \o id \o <<"]">>

\* Array.prototype.filter, Array.prototype.find (index of the first hit, 0 if none)
Filter(s, Keep(_)) ==
    LET F[i \in 0..Len(s)] ==
            IF i = 0 THEN <<>>
            ELSE IF Keep(s[i]) THEN Append(F[i - 1], s[i]) ELSE F[i - 1]
    IN  F[Len(s)]

FindIndex(s, Test(_)) ==
    IF \E i \in 1..Len(s) : Test(s[i])
    THEN CHOOSE i \in 1..Len(s) : Test(s[i]) /\ \A j \in 1..(i - 1) : ~Test(s[j])
    ELSE 0

(* ---------------------------- environments ---------------------------- *)

\* PAGE_ID_n, PAGE_NAME_n, PAGE_TOKEN_n, PAGE_IG_USERNAME_n
PageEnv(id, name, token, ig) == [id |-> id, name |-> name, token |-> token, ig |-> ig]

\* process.env: the page variables in index order, BUSINESS_IG_USERNAMES as the
\* list of its comma-separated items after trim (isSet FALSE: the variable is
\* unset), and META_VERIFY_TOKEN
Envs ==
    { [ pages |-> <<>>,
        igSet |-> FALSE, igItems |-> <<>>,
        verifyToken |-> Undefined ],
      [ pages |-> << PageEnv(<<"1">>, <<"p">>, "t1", <<"a">>) >>,
        igSet |-> FALSE, igItems |-> <<>>,
        verifyToken |-> "v" ],
      [ pages |-> << PageEnv(<<"1">>, <<"p">>, "t1", UndefinedSeq),
                     PageEnv(<<"2">>, <<"q">>, "t2", <<"b">>) >>,
        igSet |-> TRUE, igItems |-> << <<"b">>, <<>>, <<"a">> >>,
        verifyToken |-> "v" ],
      [ pages |-> << PageEnv(<<"1">>, <<"p">>, "t1", <<"A">>),
                     PageEnv(<<"2">>, <<"q">>, Undefined, <<"b">>) >>,
        igSet |-> TRUE, igItems |-> << <<"a">>, <<"b">> >>,
        verifyToken |-> "" ],
      [ pages |-> <<>>,
        igSet |-> TRUE, igItems |-> << <<"a">>, <<"b">> >>,
        verifyToken |-> "v" ] }

(* ------------------------- src/config/index.ts ------------------------ *)

\* (process.env.BUSINESS_IG_USERNAMES || '').split(',').map(trim).filter(nonempty)
NonEmptySeq(u) == Len(u) > 0
extractBusinessIgUsernames(e) ==
    Filter(IF e.igSet THEN e.igItems ELSE << <<>> >>, NonEmptySeq)

\* a page is kept only with a non-empty id, name and token
CompletePage(p) == TruthySeq(p.id) /\ TruthySeq(p.name) /\ Truthy(p.token)
ConfigPage(p) ==
    [ id |-> p.id, name |-> p.name, pageAccessToken |-> p.token,
      instagramUsername |-> IF TruthySeq(p.ig) THEN p.ig ELSE UndefinedSeq ]
extractPages(e) ==
    LET kept == Filter(e.pages, CompletePage)
    IN  [i \in 1..Len(kept) |-> ConfigPage(kept[i])]

HasIgUsername(p) == p.instagramUsername # UndefinedSeq
getBusinessIgUsernames(e) ==
    LET explicitUsernames == extractBusinessIgUsernames(e)
        withIg == Filter(extractPages(e), HasIgUsername)
    IN  IF Len(explicitUsernames) > 0 THEN explicitUsernames
        ELSE [i \in 1..Len(withIg) |-> withIg[i].instagramUsername]

Config(e) ==
    [ verifyToken |-> IF Truthy(e.verifyToken) THEN e.verifyToken ELSE "",
      pages |-> extractPages(e),
      businessIgUsernames |-> getBusinessIgUsernames(e) ]

(* ---------------- standalone servers: the two registries -------------- *)

\* obj[key] = value on an object kept as an ordered list of [key, ...] records
Put(obj, rec) ==
    IF \E i \in 1..Len(obj) : obj[i].key = rec.key
    THEN [i \in 1..Len(obj) |-> IF obj[i].key = rec.key THEN rec ELSE obj[i]]
    ELSE Append(obj, rec)

HasKey(obj, k) == \E i \in 1..Len(obj) : obj[i].key = k
Get(obj, k) == obj[CHOOSE i \in 1..Len(obj) : obj[i].key = k]
\* Object.keys
Keys(obj) == [i \in 1..Len(obj) |-> obj[i].key]

\* the pages the while loop visits: up to the first unset or empty PAGE_ID_n
RECURSIVE LoopPages(_)
LoopPages(ps) ==
    IF ps = <<>> \/ ~TruthySeq(Head(ps).id) THEN <<>>
    ELSE <<Head(ps)>> \o LoopPages(Tail(ps))

RECURSIVE FacebookPagesOf(_, _)
FacebookPagesOf(ps, acc) ==
    IF ps = <<>> THEN acc
    ELSE FacebookPagesOf(Tail(ps),
            Put(acc, [key |-> Head(ps).id, name |-> Head(ps).name,
                      token |-> Head(ps).token]))

RECURSIVE InstagramAccountsOf(_, _)
InstagramAccountsOf(ps, acc) ==
    IF ps = <<>> THEN acc
    ELSE InstagramAccountsOf(Tail(ps),
            IF TruthySeq(Head(ps).ig)
            THEN Put(acc, [key |-> ToLowerCase(Head(ps).ig), pageId |-> Head(ps).id,
                           token |-> Head(ps).token, name |-> Head(ps).name])
            ELSE acc)

\* the later revision also walks BUSINESS_IG_USERNAMES
RECURSIVE AdditionalUsernames(_, _, _)
AdditionalUsernames(us, ps, acc) ==
    IF us = <<>> THEN acc
    ELSE LET username == Head(us)
             Matches(p) == TruthySeq(p.ig) /\ ToLowerCase(p.ig) = ToLowerCase(username)
             i == FindIndex(ps, Matches)
         IN  AdditionalUsernames(Tail(us), ps,
                IF HasKey(acc, ToLowerCase(username)) \/ i = 0 THEN acc
                ELSE Put(acc, [key |-> ToLowerCase(username), pageId |-> ps[i].id,
                               token |-> ps[i].token, name |-> ps[i].name]))

initializePageConfigurations(e) ==
    [ facebookPages |-> FacebookPagesOf(LoopPages(e.pages), <<>>),
      instagramAccounts |-> InstagramAccountsOf(LoopPages(e.pages), <<>>) ]

initializePageConfigurations2(e) ==
    LET first == initializePageConfigurations(e)
    IN  [ facebookPages |-> first.facebookPages,
          instagramAccounts |->
              IF e.igSet /\ e.igItems # <<>>
              THEN AdditionalUsernames(e.igItems, LoopPages(e.pages),
                                       first.instagramAccounts)
              ELSE first.instagramAccounts ]

(* ------------------------------ responses ----------------------------- *)

NoResponse == [status |-> 0, body |-> Undefined]
\* res.status(code).send(body)
Send(code, body) == [status |-> code, body |-> body]
\* res.sendStatus(code): the status text is the body
SendStatus(code) ==
    [status |-> code,
     body |-> CASE code = 400 -> "Bad Request"
                [] code = 403 -> "Forbidden"
                [] code = 404 -> "Not Found"
                [] OTHER -> "Internal Server Error"]

(* ------------------------- GET /webhook ------------------------------- *)

Modes == {Undefined, "", "subscribe", "unsubscribe"}
Tokens == {Undefined, "", "v", "w"}
Challenges == {Undefined, "c1", "c2"}
Queries == [mode : Modes, token : Tokens, challenge : Challenges]

\* a verifyWebhook that answers a good handshake with res.sendStatus(200)
verifyWebhook_SendStatus(q, verifyToken) ==
    IF Truthy(q.mode) /\ Truthy(q.token)
    THEN IF q.mode = "subscribe" /\ q.token = verifyToken
         THEN [status |-> 200, body |-> "OK"]
         ELSE SendStatus(403)
    ELSE SendStatus(400)

\* a verifyWebhook that takes a parameter as present when it is not undefined
verifyWebhook_PresentWhenDefined(q, verifyToken) ==
    IF q.mode # Undefined /\ q.token # Undefined
    THEN IF q.mode = "subscribe" /\ q.token = verifyToken
         THEN Send(200, q.challenge)
         ELSE SendStatus(403)
    ELSE SendStatus(400)

\* controller: verifyWebhook
verifyWebhook(q, verifyToken) ==
    IF Truthy(q.mode) /\ Truthy(q.token)
    THEN IF q.mode = "subscribe" /\ q.token = verifyToken
         THEN Send(200, q.challenge)
         ELSE SendStatus(403)
    ELSE SendStatus(400)

\* an app.get('/webhook') that compares the token and forgets the mode
serverGetWebhook_AnyMode(q, verifyToken) ==
    IF Truthy(q.mode) /\ Truthy(q.token)
    THEN IF q.token = verifyToken
         THEN Send(200, q.challenge)
         ELSE SendStatus(403)
    ELSE SendStatus(404)

\* webhook-server.js: app.get('/webhook')
serverGetWebhook(q, verifyToken) ==
    IF Truthy(q.mode) /\ Truthy(q.token)
    THEN IF q.mode = "subscribe" /\ q.token = verifyToken
         THEN Send(200, q.challenge)
         ELSE SendStatus(403)
    ELSE SendStatus(404)

\* an app.get('/webhook') without the check that mode and token are there
server2GetWebhook_NoPresenceCheck(q, verifyToken) ==
    IF q.mode = "subscribe" /\ q.token = verifyToken
    THEN Send(200, q.challenge)
    ELSE SendStatus(403)

\* the later revision: app.get('/webhook')
server2GetWebhook(q, verifyToken) ==
    IF Truthy(q.mode) /\ Truthy(q.token)
    THEN IF q.mode = "subscribe" /\ q.token = verifyToken
         THEN Send(200, q.challenge)
         ELSE SendStatus(403)
    ELSE SendStatus(404)

\* the verify token the handshake of this server compares against
ConfiguredVerifyToken ==
    IF server = "controller" THEN config.verifyToken ELSE envVerifyToken

Servers == {"controller", "server", "server2"}

(* ----------------------------- POST bodies ---------------------------- *)

Objects == {"page", "instagram", "user"}
\* body.object, whether body.entry is an array at all, and its length; the
\* entries are read one at a time, and each is drawn when the loop reaches it
PostBodies ==
    { b \in [object : Objects, hasEntry : BOOLEAN, length : 0..MaxEntries] :
        ~b.hasEntry => b.length = 0 }

Words ==
    { At(<<"a">>), At(<<"b">>), At(<<"A">>), At(<<"p">>), At(<<"q">>), AtBracket(<<"1">>) }

\* the texts of up to n different words
RECURSIVE TextsOf(_)
TextsOf(n) ==
    IF n = 0 THEN {<<>>}
    ELSE LET shorter == TextsOf(n - 1)
         IN  shorter \cup
             UNION { {t \o w : w \in {v \in Words : ~Includes(t, v)}} : t \in shorter }

\* a comment's message / text: absent, or up to MaxWords words
CommentTexts == TextsOf(MaxWords) \cup {UndefinedSeq}
\* the texts the standalone handlers are given: absent, empty, or one word
ServerTexts == {UndefinedSeq, <<>>} \cup Words

\* change.value, with every key a handler reads
NoValue == [kind |-> "undefined"]
Value(item, message, text, post_id, media_id, from_id, ig_id, page_id, username) ==
    [ kind |-> "object", item |-> item, message |-> message, text |-> text,
      post_id |-> post_id, media_id |-> media_id, from_id |-> from_id,
      instagram_id |-> ig_id, page_id |-> page_id,
      mentioned_username |-> username ]

\* a Facebook feed value and an Instagram comment value, as the services read them
FacebookValues ==
    { Value(item, message, UndefinedSeq, post_id, Undefined, "u1", Undefined,
            UndefinedSeq, UndefinedSeq) :
        item \in {"comment", "post"}, message \in CommentTexts,
        post_id \in {Undefined, "p1"} }
InstagramValues ==
    { Value(Undefined, UndefinedSeq, text, Undefined, media_id, from_id, Undefined,
            UndefinedSeq, UndefinedSeq) :
        text \in CommentTexts, media_id \in {Undefined, "m1"},
        from_id \in {Undefined, "u1"} }

ControllerFields == {"feed", "comments"}
ControllerChanges(object) ==
    [ field : ControllerFields,
      value : {NoValue} \cup (IF object = "page" THEN FacebookValues
                              ELSE InstagramValues) ]

\* the changes after the first one: copies of a comment that mentions @a
LaterChange(object) ==
    IF object = "page"
    THEN [ field |-> "feed",
           value |-> Value("comment", At(<<"a">>), UndefinedSeq, "p1", Undefined,
                           "u1", Undefined, UndefinedSeq, UndefinedSeq) ]
    ELSE [ field |-> "comments",
           value |-> Value(Undefined, UndefinedSeq, At(<<"a">>), Undefined, "m1",
                           "u1", Undefined, UndefinedSeq, UndefinedSeq) ]
LaterChanges(object) ==
    { [i \in 1..n |-> LaterChange(object)] : n \in 0..(MaxChanges - 1) }

EntryTime == 1700
\* an entry (isNull FALSE: an object): entry.changes (hasChanges FALSE:
\* undefined) and entry.time
ControllerEntries(object) ==
    { [isNull |-> FALSE, hasChanges |-> FALSE, changes |-> <<>>, time |-> EntryTime],
      [isNull |-> FALSE, hasChanges |-> TRUE, changes |-> <<>>, time |-> EntryTime] }
    \cup { [isNull |-> FALSE, hasChanges |-> TRUE, changes |-> <<c>> \o later,
            time |-> EntryTime] :
             c \in ControllerChanges(object), later \in LaterChanges(object) }

(* ----------------------------- Graph API ------------------------------ *)

\* what a GET to the Graph API comes back with: a transport or API error, a
\* body with every requested field, a body with none of them
GraphOutcomes == {"error", "full", "bare"}
Field(outcome, v) == IF outcome = "full" THEN v ELSE Undefined

(* -------------------- services: facebook, instagram ------------------- *)

NoMention == [platform |-> Null]
NoCur ==
    [ username |-> <<>>, pageId |-> <<>>, token |-> "", platform |-> "",
      postId |-> Undefined, postContent |-> Undefined, postUrl |-> Undefined,
      tagger |-> Undefined, error |-> FALSE,
      fetched |-> Undefined, details |-> Undefined,
      taggerFetched |-> Undefined, taggerDetails |-> Undefined ]

\* a loop over the usernames that tests for any `@` in the text
MentionedUsername_AnyAt(commentText) ==
    LET Hit(u) == Includes(commentText, <<"@">>)
        i == FindIndex(config.businessIgUsernames, Hit)
    IN  IF i = 0 THEN <<>> ELSE config.businessIgUsernames[i]

\* a loop over the usernames without its break: the last hit wins
MentionedUsername_NoBreak(commentText) ==
    LET us == config.businessIgUsernames
        hits == {i \in 1..Len(us) : Includes(commentText, At(us[i]))}
    IN  IF hits = {} THEN <<>>
        ELSE us[CHOOSE i \in hits : \A j \in hits : j <= i]

\* a loop over the usernames that compares lower-cased text and username
MentionedUsername_IgnoreCase(commentText) ==
    LET Hit(u) == Includes(ToLowerCase(commentText), At(ToLowerCase(u)))
        i == FindIndex(config.businessIgUsernames, Hit)
    IN  IF i = 0 THEN <<>> ELSE config.businessIgUsernames[i]

\* the first configured username u with `@u` in the text ('' if none)
MentionedUsername(commentText) ==
    LET Hit(u) == Includes(commentText, At(u))
        i == FindIndex(config.businessIgUsernames, Hit)
    IN  IF i = 0 THEN <<>> ELSE config.businessIgUsernames[i]

\* the first configured page named in the text as `@name` or `@[id]` (0 if none)
MentionedPage(commentText) ==
    LET Hit(p) == Includes(commentText, At(p.name))
                  \/ Includes(commentText, AtBracket(p.id))
    IN  FindIndex(config.pages, Hit)

\* a lookup without the fallback to the first page
getPageAccessToken_NoFallback(pageId) ==
    LET Same(p) == p.id = pageId
        i == IF TruthySeq(pageId) THEN FindIndex(config.pages, Same) ELSE 0
    IN  IF i # 0 THEN config.pages[i].pageAccessToken
        ELSE ""

getPageAccessToken(pageId) ==
    LET Same(p) == p.id = pageId
        i == IF TruthySeq(pageId) THEN FindIndex(config.pages, Same) ELSE 0
    IN  IF i # 0 THEN config.pages[i].pageAccessToken
        ELSE IF Len(config.pages) > 0 THEN config.pages[1].pageAccessToken
        ELSE ""

\* facebookService: the guard, the request and what is returned
getFacebookPostDetails(postId, accessToken, outcome) ==
    IF ~Truthy(accessToken) THEN [request |-> FALSE, ok |-> FALSE]
    ELSE IF outcome = "error" THEN [request |-> TRUE, ok |-> FALSE]
    ELSE [ request |-> TRUE, ok |-> TRUE,
           message |-> Field(outcome, "post message"),
           permalink_url |-> Field(outcome, "permalink") ]

\* instagramService
getInstagramMediaDetails(mediaId, accessToken, outcome) ==
    IF ~Truthy(accessToken) THEN [request |-> FALSE, ok |-> FALSE]
    ELSE IF outcome = "error" THEN [request |-> TRUE, ok |-> FALSE]
    ELSE [ request |-> TRUE, ok |-> TRUE,
           caption |-> Field(outcome, "caption"),
           permalink |-> Field(outcome, "permalink") ]

getInstagramUserDetails(userId, accessToken, outcome) ==
    IF ~Truthy(accessToken) THEN [request |-> FALSE, ok |-> FALSE]
    ELSE IF outcome = "error" THEN [request |-> TRUE, ok |-> FALSE]
    ELSE [ request |-> TRUE, ok |-> TRUE,
           username |-> Field(outcome, "tagger"),
           profile_picture_url |-> Field(outcome, "picture") ]

\* a relevance test that forgets value.item
FacebookComment_AnyItem(e) ==
    /\ e.hasChanges /\ Len(e.changes) # 0
    /\ e.changes[1].field = "feed"
    /\ e.changes[1].value # NoValue

\* a relevance test that accepts a feed comment at any index of entry.changes
FacebookComment_AnyChange(e) ==
    /\ e.hasChanges /\ Len(e.changes) # 0
    /\ e.changes[1].value # NoValue
    /\ \E i \in 1..Len(e.changes) :
          /\ e.changes[i].field = "feed"
          /\ e.changes[i].value # NoValue
          /\ e.changes[i].value.item = "comment"

\* processFacebookWebhook up to its first await: the change it looks at, and
\* whether it is a feed comment
FacebookComment(e) ==
    /\ e.hasChanges /\ Len(e.changes) # 0
    /\ e.changes[1].field = "feed"
    /\ e.changes[1].value # NoValue
    /\ e.changes[1].value.item = "comment"

FacebookCommentText(e) ==
    IF TruthySeq(e.changes[1].value.message) THEN e.changes[1].value.message ELSE <<>>

\* a page loop that takes a page only when it has a linked Instagram username
FacebookMentioned_LinkedPagesOnly(commentText) ==
    LET byName == MentionedUsername(commentText)
        p == IF TruthySeq(byName) THEN 0 ELSE MentionedPage(commentText)
        linked == p # 0 /\ TruthySeq(config.pages[p].instagramUsername)
    IN  [ username |-> IF linked THEN config.pages[p].instagramUsername ELSE byName,
          pageId |-> IF linked THEN config.pages[p].id ELSE <<>> ]

\* a page loop that runs whether or not a username has matched
FacebookMentioned_PagesAlways(commentText) ==
    LET byName == MentionedUsername(commentText)
        p == MentionedPage(commentText)
    IN  [ username |-> IF TruthySeq(byName) THEN byName
                       ELSE IF p # 0 /\ TruthySeq(config.pages[p].instagramUsername)
                       THEN config.pages[p].instagramUsername ELSE byName,
          pageId |-> IF p # 0 THEN config.pages[p].id ELSE <<>> ]

\* mentionedUsername and mentionedPageId as lines 25-48 leave them
FacebookMentioned(commentText) ==
    LET byName == MentionedUsername(commentText)
        p == IF TruthySeq(byName) THEN 0 ELSE MentionedPage(commentText)
    IN  [ username |-> IF p # 0 /\ TruthySeq(config.pages[p].instagramUsername)
                       THEN config.pages[p].instagramUsername ELSE byName,
          pageId |-> IF p # 0 THEN config.pages[p].id ELSE <<>> ]

\* a MentionData that keeps the comment text lower-cased
MentionData_LowerCased(platform, e, commentText, c) ==
    [ platform |-> platform,
      postId |-> IF Truthy(c.postId) THEN c.postId ELSE "",
      postUrl |-> c.postUrl,
      postContent |-> c.postContent,
      commentText |-> ToLowerCase(commentText),
      tagger |-> c.tagger,
      mentionedUsername |-> c.username,
      timestamp |-> e.time ]

\* the MentionData both services build
MentionData(platform, e, commentText, c) ==
    [ platform |-> platform,
      postId |-> IF Truthy(c.postId) THEN c.postId ELSE "",
      postUrl |-> c.postUrl,
      postContent |-> c.postContent,
      commentText |-> commentText,
      tagger |-> c.tagger,
      mentionedUsername |-> c.username,
      timestamp |-> e.time ]

\* processInstagramWebhook up to its first await
InstagramComment(e) ==
    /\ e.hasChanges /\ Len(e.changes) # 0
    /\ e.changes[1].field = "comments"
    /\ e.changes[1].value # NoValue

InstagramCommentText(e) ==
    IF TruthySeq(e.changes[1].value.text) THEN e.changes[1].value.text ELSE <<>>

\* associatedPage?.pageAccessToken || (first page's token, or '')
InstagramToken(username) ==
    LET Linked(p) == p.instagramUsername = username
        i == FindIndex(config.pages, Linked)
    IN  IF i # 0 /\ Truthy(config.pages[i].pageAccessToken)
        THEN config.pages[i].pageAccessToken
        ELSE IF Len(config.pages) > 0 THEN config.pages[1].pageAccessToken ELSE ""

(* ------------------------------ state --------------------------------- *)

NoEntry == [isNull |-> FALSE, hasChanges |-> FALSE, changes |-> <<>>, time |-> 0]
\* a null element of payload.entry
NullEntry == [isNull |-> TRUE, hasChanges |-> FALSE, changes |-> <<>>, time |-> 0]
NoChange == [field |-> Undefined, value |-> NoValue]

Fresh ==
    /\ idx = 0 /\ cidx = 0
    /\ entry = NoEntry /\ change = NoChange /\ cur = NoCur
    /\ mention = NoMention
    /\ calls = 0 /\ lastToken = Undefined /\ emails = 0
    /\ mailed = "none" /\ failedEntry = 0

Init ==
    /\ server \in Servers
    /\ \E e \in Envs :
        /\ config = Config(e)
        /\ envVerifyToken = e.verifyToken
        /\ LET r == IF server = "server2" THEN initializePageConfigurations2(e)
                    ELSE initializePageConfigurations(e)
           IN  /\ facebookPages = r.facebookPages
               /\ instagramAccounts = r.instagramAccounts
    /\ req = [method |-> "none"]
    /\ res = NoResponse
    /\ pc = "idle"
    /\ Fresh

\* a new request starts from a clean slate
Reset ==
    /\ idx' = 0 /\ cidx' = 0
    /\ entry' = NoEntry /\ change' = NoChange /\ cur' = NoCur
    /\ mention' = NoMention
    /\ calls' = 0 /\ lastToken' = Undefined /\ emails' = 0
    /\ mailed' = "none" /\ failedEntry' = 0

\* a GET /webhook request is answered in one synchronous step
GetWebhook ==
    /\ pc = "idle"
    /\ \E q \in Queries :
        /\ req' = [method |-> "GET", query |-> q]
        /\ res' = CASE server = "controller" -> verifyWebhook(q, config.verifyToken)
                    [] server = "server" -> serverGetWebhook(q, envVerifyToken)
                    [] OTHER -> server2GetWebhook(q, envVerifyToken)
    /\ pc' = "done"
    /\ UNCHANGED <<registry, idx, entry, cidx, change, cur, mention,
                   calls, lastToken, emails,
                   mailed, failedEntry>>

\* a POST /webhook request arrives
PostWebhook ==
    /\ pc = "idle"
    /\ \E b \in PostBodies : req' = [method |-> "POST", body |-> b]
    /\ pc' = "handler"
    /\ UNCHANGED <<registry, res, idx, entry, cidx, change, cur, mention,
                   calls, lastToken, emails,
                   mailed, failedEntry>>

\* the handler has returned and the connection is closed: the server waits for
\* the next request
RequestEnd ==
    /\ pc = "done"
    /\ req' = [method |-> "none"]
    /\ res' = NoResponse
    /\ pc' = "idle"
    /\ Reset
    /\ UNCHANGED registry

Supported(object) == object = "page" \/ object = "instagram"

(* ----------------------- controller: processWebhook ------------------- *)

\* lines 44-59 and 81-87: acknowledge, then look at payload.object; iterating
\* an undefined payload.entry throws into the outer catch
processWebhook ==
    /\ pc = "handler" /\ server = "controller"
    /\ res' = Send(200, "EVENT_RECEIVED")
    /\ pc' = IF Supported(req.body.object) /\ req.body.hasEntry THEN "loop" ELSE "done"
    /\ UNCHANGED <<registry, req, idx, entry, cidx, change, cur, mention,
                   calls, lastToken, emails,
                   mailed, failedEntry>>

\* the for loop has no entry left
ControllerLoopEnd ==
    /\ pc = "loop" /\ server = "controller"
    /\ idx = req.body.length
    /\ pc' = "done"
    /\ UNCHANGED <<registry, req, res, idx, entry, cidx, change, cur, mention,
                   calls, lastToken, emails,
                   mailed, failedEntry>>

\* the next entry of a page payload goes to processFacebookWebhook, which runs
\* to its return or to the await of getFacebookPostDetails; a null entry throws
\* into its catch, which returns null
ProcessFacebookEntry ==
    /\ pc = "loop" /\ server = "controller" /\ req.body.object = "page"
    /\ idx < req.body.length
    /\ \E e \in ControllerEntries("page") \cup {NullEntry} :
        /\ entry' = e
        /\ failedEntry' = IF e.isNull THEN idx + 1 ELSE failedEntry
        /\ IF e.isNull \/ ~FacebookComment(e)
           THEN /\ cur' = NoCur /\ mention' = NoMention /\ pc' = "iterEnd"
           ELSE LET commentData == e.changes[1].value
                    commentText == FacebookCommentText(e)
                    m == FacebookMentioned(commentText)
                    c == [NoCur EXCEPT !.username = m.username, !.pageId = m.pageId,
                                       !.platform = "facebook",
                                       !.postId = commentData.post_id,
                                       !.tagger = "tagger name",
                                       !.token = getPageAccessToken(m.pageId)]
                IN  IF ~TruthySeq(m.username) /\ ~TruthySeq(m.pageId)
                    THEN /\ cur' = NoCur /\ mention' = NoMention /\ pc' = "iterEnd"
                    ELSE /\ cur' = c
                         /\ IF Truthy(commentData.post_id) /\ Truthy(c.token)
                            THEN /\ mention' = NoMention /\ pc' = "fetchPost"
                            ELSE /\ mention' = MentionData("facebook", e, commentText, c)
                                 /\ pc' = "notify"
    /\ idx' = idx + 1
    /\ UNCHANGED <<registry, req, res, cidx, change, calls, lastToken, emails, mailed>>

\* what a service's detail fetch handed back: null, or the response body
ServiceDetails(d) == IF d.ok THEN "data" ELSE Null

\* a processFacebookWebhook that returns null when the post details are null
FetchFacebookPost_DropOnError ==
    /\ pc = "fetchPost" /\ server = "controller"
    /\ \E outcome \in GraphOutcomes :
        LET postDetails == getFacebookPostDetails(cur.postId, cur.token, outcome)
            got == [cur EXCEPT !.fetched = outcome,
                               !.details = ServiceDetails(postDetails)]
            c == IF postDetails.ok
                 THEN [got EXCEPT !.postContent = postDetails.message,
                                  !.postUrl = IF Truthy(postDetails.permalink_url)
                                              THEN postDetails.permalink_url
                                              ELSE "facebook.com/post_id"]
                 ELSE got
        IN  /\ cur' = c
            /\ calls' = IF postDetails.request THEN calls + 1 ELSE calls
            /\ lastToken' = IF postDetails.request THEN cur.token ELSE lastToken
            /\ failedEntry' = IF postDetails.ok THEN failedEntry ELSE idx
            /\ mention' = IF postDetails.ok
                          THEN MentionData("facebook", entry, FacebookCommentText(entry), c)
                          ELSE NoMention
            /\ pc' = IF postDetails.ok THEN "notify" ELSE "iterEnd"
    /\ UNCHANGED <<registry, req, res, idx, entry, cidx, change, emails, mailed>>

\* getFacebookPostDetails answers and processFacebookWebhook returns its record
FetchFacebookPost ==
    /\ pc = "fetchPost" /\ server = "controller"
    /\ \E outcome \in GraphOutcomes :
        LET postDetails == getFacebookPostDetails(cur.postId, cur.token, outcome)
            got == [cur EXCEPT !.fetched = outcome,
                               !.details = ServiceDetails(postDetails)]
            c == IF postDetails.ok
                 THEN [got EXCEPT !.postContent = postDetails.message,
                                  !.postUrl = IF Truthy(postDetails.permalink_url)
                                              THEN postDetails.permalink_url
                                              ELSE "facebook.com/post_id"]
                 ELSE got
        IN  /\ cur' = c
            /\ calls' = IF postDetails.request THEN calls + 1 ELSE calls
            /\ lastToken' = IF postDetails.request THEN cur.token ELSE lastToken
            /\ failedEntry' = IF postDetails.ok THEN failedEntry ELSE idx
            /\ mention' = MentionData("facebook", entry, FacebookCommentText(entry), c)
    /\ pc' = "notify"
    /\ UNCHANGED <<registry, req, res, idx, entry, cidx, change, emails, mailed>>

\* the next entry of an instagram payload goes to processInstagramWebhook, which
\* runs to its return or to its first await
ProcessInstagramEntry ==
    /\ pc = "loop" /\ server = "controller" /\ req.body.object = "instagram"
    /\ idx < req.body.length
    /\ \E e \in ControllerEntries("instagram") \cup {NullEntry} :
        /\ entry' = e
        /\ failedEntry' = IF e.isNull THEN idx + 1 ELSE failedEntry
        /\ IF e.isNull \/ ~InstagramComment(e)
           THEN /\ cur' = NoCur /\ mention' = NoMention /\ pc' = "iterEnd"
           ELSE LET commentData == e.changes[1].value
                    commentText == InstagramCommentText(e)
                    mentionedUsername == MentionedUsername(commentText)
                    c == [NoCur EXCEPT !.username = mentionedUsername,
                                       !.platform = "instagram",
                                       !.postId = commentData.media_id,
                                       !.tagger = "",
                                       !.token = InstagramToken(mentionedUsername)]
                IN  IF ~TruthySeq(mentionedUsername)
                    THEN /\ cur' = NoCur /\ mention' = NoMention /\ pc' = "iterEnd"
                    ELSE /\ cur' = c
                         /\ IF Truthy(commentData.media_id) /\ Truthy(c.token)
                            THEN /\ mention' = NoMention /\ pc' = "fetchMedia"
                            ELSE IF Truthy(commentData.from_id) /\ Truthy(c.token)
                            THEN /\ mention' = NoMention /\ pc' = "fetchUser"
                            ELSE /\ mention' = MentionData("instagram", e, commentText, c)
                                 /\ pc' = "notify"
    /\ idx' = idx + 1
    /\ UNCHANGED <<registry, req, res, cidx, change, calls, lastToken, emails, mailed>>

\* getInstagramMediaDetails answers; the tagger lookup may follow
FetchInstagramMedia ==
    /\ pc = "fetchMedia" /\ server = "controller"
    /\ \E outcome \in GraphOutcomes :
        LET mediaDetails == getInstagramMediaDetails(cur.postId, cur.token, outcome)
            got == [cur EXCEPT !.fetched = outcome,
                               !.details = ServiceDetails(mediaDetails)]
            c == IF mediaDetails.ok
                 THEN [got EXCEPT !.postContent = mediaDetails.caption,
                                  !.postUrl = mediaDetails.permalink]
                 ELSE got
        IN  /\ cur' = c
            /\ calls' = IF mediaDetails.request THEN calls + 1 ELSE calls
            /\ lastToken' = IF mediaDetails.request THEN cur.token ELSE lastToken
            /\ failedEntry' = IF mediaDetails.ok THEN failedEntry ELSE idx
            /\ IF Truthy(entry.changes[1].value.from_id) /\ Truthy(cur.token)
               THEN /\ mention' = NoMention /\ pc' = "fetchUser"
               ELSE /\ mention' = MentionData("instagram", entry,
                                              InstagramCommentText(entry), c)
                    /\ pc' = "notify"
    /\ UNCHANGED <<registry, req, res, idx, entry, cidx, change, emails, mailed>>

\* getInstagramUserDetails answers and processInstagramWebhook returns its record
FetchInstagramUser ==
    /\ pc = "fetchUser" /\ server = "controller"
    /\ \E outcome \in GraphOutcomes :
        LET taggerDetails == getInstagramUserDetails(entry.changes[1].value.from_id,
                                                     cur.token, outcome)
            got == [cur EXCEPT !.taggerFetched = outcome,
                               !.taggerDetails = ServiceDetails(taggerDetails)]
            c == IF taggerDetails.ok /\ Truthy(taggerDetails.username)
                 THEN [got EXCEPT !.tagger = taggerDetails.username]
                 ELSE got
        IN  /\ cur' = c
            /\ calls' = IF taggerDetails.request THEN calls + 1 ELSE calls
            /\ lastToken' = IF taggerDetails.request THEN cur.token ELSE lastToken
            /\ failedEntry' = IF taggerDetails.ok THEN failedEntry ELSE idx
            /\ mention' = MentionData("instagram", entry, InstagramCommentText(entry), c)
    /\ pc' = "notify"
    /\ UNCHANGED <<registry, req, res, idx, entry, cidx, change, emails, mailed>>

\* notificationService: the record is handed over once; the delivery succeeds or
\* fails, and a failure is logged and swallowed
sendAllNotifications(n) == n + 1
Delivery(delivered) == IF delivered THEN "sent" ELSE "failed"

\* a sendAllNotifications(mentionData) without its await: the loop goes on while
\* the notification is still under way
Notify_NotAwaited ==
    /\ pc = "notify" /\ server = "controller"
    /\ mention # NoMention
    /\ pc' = "loop"
    /\ UNCHANGED <<registry, req, res, idx, entry, cidx, change, cur, mention,
                   calls, lastToken, emails, mailed, failedEntry>>

\* lines 73-79: a record goes to sendAllNotifications, then the loop goes on
Notify ==
    /\ pc = "notify" /\ server = "controller"
    /\ mention # NoMention
    /\ emails' = sendAllNotifications(emails)
    /\ \E delivered \in BOOLEAN :
        /\ mailed' = Delivery(delivered)
        /\ failedEntry' = IF delivered THEN failedEntry ELSE idx
    /\ pc' = "iterEnd"
    /\ UNCHANGED <<registry, req, res, idx, entry, cidx, change, cur, mention,
                   calls, lastToken>>

\* the loop body ends: its locals (entry, mentionData) go out of scope
ControllerNextIteration ==
    /\ pc = "iterEnd" /\ server = "controller"
    /\ pc' = "loop"
    /\ entry' = NoEntry /\ cur' = NoCur /\ mention' = NoMention
    /\ calls' = 0 /\ lastToken' = Undefined /\ emails' = 0 /\ mailed' = "none"
    /\ UNCHANGED <<registry, req, res, idx, cidx, change, failedEntry>>

(* ------------------ standalone servers: POST /webhook ----------------- *)

U == Undefined
US == UndefinedSeq

\* the values of mention, mentions and comments changes, as the handlers read them
MentionValues ==
    { Value(U, US, US, "p1", U, U, U, page_id, US) :
        page_id \in {US, <<"1">>, <<"2">>} }
MentionsValues ==
    { Value(U, US, US, U, "m1", U, U, US, mentioned_username) :
        mentioned_username \in {US, <<"a">>, <<"A">>, <<"b">>} }
CommentValues ==
    { Value(U, message, US, "p1", U, U, U, US, US) : message \in ServerTexts }
    \cup { Value(U, US, text, U, "m1", U, "i1", US, US) : text \in ServerTexts }

\* a null element of entry.changes
NullChange == [field |-> Null, value |-> NoValue]
ServerChanges ==
    [field : {"mention"}, value : MentionValues \cup {NoValue}]
    \cup [field : {"mentions"}, value : MentionsValues \cup {NoValue}]
    \cup [field : {"comments"}, value : CommentValues \cup {NoValue}]
    \cup {[field |-> "feed", value |-> NoValue], NullChange}

\* a || b on strings
OrSeq(a, b) == IF TruthySeq(a) THEN a ELSE b
Or(a, b) == IF Truthy(a) THEN a ELSE b

\* what a handler has decided when it reaches its first await or returns:
\* fetch FALSE: it returned (Skip) or it threw and its catch logged the error
\* (Threw)
Skip == [fetch |-> FALSE, threw |-> FALSE, info |-> NoCur]
Threw == [fetch |-> FALSE, threw |-> TRUE, info |-> NoCur]
FetchWith(platform, token, postId, username) ==
    [ fetch |-> TRUE, threw |-> FALSE,
      info |-> [NoCur EXCEPT !.platform = platform, !.token = token,
                             !.postId = postId, !.username = username] ]

\* facebookPages[pageId]?.token
PageToken(pageId) ==
    IF HasKey(facebookPages, pageId) THEN Get(facebookPages, pageId).token ELSE Undefined

\* a handleMention that looks the mentioned_username up as it is given
handleMention_ExactCase(data, platform) ==
    IF data = NoValue THEN Threw
    ELSE IF platform = "facebook"
    THEN IF ~Truthy(PageToken(data.page_id)) THEN Threw
         ELSE FetchWith("facebook", PageToken(data.page_id), data.post_id, US)
    ELSE IF data.mentioned_username = US THEN Threw
    ELSE IF ~HasKey(instagramAccounts, data.mentioned_username) THEN Threw
    ELSE FetchWith("instagram",
                   Get(instagramAccounts, data.mentioned_username).token,
                   data.media_id, data.mentioned_username)

\* webhook-server.js: handleMention up to its await
handleMention(data, platform) ==
    IF data = NoValue THEN Threw
    ELSE IF platform = "facebook"
    THEN IF ~Truthy(PageToken(data.page_id)) THEN Threw
         ELSE FetchWith("facebook", PageToken(data.page_id), data.post_id, US)
    ELSE IF data.mentioned_username = US THEN Threw
    ELSE IF ~HasKey(instagramAccounts, ToLowerCase(data.mentioned_username)) THEN Threw
    ELSE FetchWith("instagram",
                   Get(instagramAccounts, ToLowerCase(data.mentioned_username)).token,
                   data.media_id, data.mentioned_username)

\* the later revision: handleMention up to its await
handleMention2(data, platform) ==
    IF data = NoValue THEN Threw
    ELSE IF platform = "facebook"
    THEN IF ~Truthy(PageToken(data.page_id)) THEN Threw
         ELSE FetchWith("facebook", PageToken(data.page_id), data.post_id, US)
    ELSE LET given == data.mentioned_username
             usable == TruthySeq(given) \/ Len(Keys(instagramAccounts)) = 1
             mentionedUsername == IF TruthySeq(given) THEN given
                                  ELSE Keys(instagramAccounts)[1]
         IN  IF ~usable THEN Skip
             ELSE IF ~HasKey(instagramAccounts, ToLowerCase(mentionedUsername)) THEN Skip
             ELSE FetchWith("instagram",
                            Get(instagramAccounts, ToLowerCase(mentionedUsername)).token,
                            data.media_id, mentionedUsername)

\* monitoredAccounts.find(username => message.toLowerCase().includes(`@${username.toLowerCase()}`))
MentionedAccount(message) ==
    LET monitoredAccounts == Keys(instagramAccounts)
        Hit(username) == Includes(ToLowerCase(message), At(ToLowerCase(username)))
        i == FindIndex(monitoredAccounts, Hit)
    IN  IF i = 0 THEN US ELSE monitoredAccounts[i]

CommentPlatform(data) == IF Truthy(data.instagram_id) THEN "instagram" ELSE "facebook"

\* webhook-server.js: handleComment up to its await; with accounts configured, a
\* comment without message and text throws on toLowerCase
handleComment(data) ==
    IF data = NoValue THEN Threw
    ELSE LET message == OrSeq(data.message, data.text)
         IN  IF Len(Keys(instagramAccounts)) = 0 THEN Skip
             ELSE IF message = US THEN Threw
             ELSE IF MentionedAccount(message) = US THEN Skip
             ELSE FetchWith(CommentPlatform(data),
                            Get(instagramAccounts,
                                ToLowerCase(MentionedAccount(message))).token,
                            Or(data.post_id, data.media_id),
                            MentionedAccount(message))

\* the later revision: handleComment up to its await
handleComment2(data) ==
    IF data = NoValue THEN Skip
    ELSE LET message == OrSeq(OrSeq(data.message, data.text), <<>>)
         IN  IF ~TruthySeq(message) THEN Skip
             ELSE IF Len(Keys(instagramAccounts)) = 0 THEN Skip
             ELSE IF MentionedAccount(message) = US THEN Skip
             ELSE IF ~HasKey(instagramAccounts, ToLowerCase(MentionedAccount(message)))
             THEN Skip
             ELSE FetchWith(CommentPlatform(data),
                            Get(instagramAccounts,
                                ToLowerCase(MentionedAccount(message))).token,
                            Or(data.post_id, data.media_id),
                            MentionedAccount(message))

\* webhook-server.js: getFacebookPostDetails, getInstagramPostDetails: the
\* request is made with whatever token is given; an error becomes an error object
serverGetFacebookPostDetails(postId, accessToken, outcome) ==
    IF outcome = "error"
    THEN [request |-> TRUE, error |-> TRUE, postMessage |-> Undefined, postUrl |-> Undefined]
    ELSE [request |-> TRUE, error |-> FALSE,
          postMessage |-> Or(Field(outcome, "post message"), ""),
          postUrl |-> Field(outcome, "permalink")]

\* response.data.media_type.toLowerCase() throws on a body without media_type
serverGetInstagramPostDetails(mediaId, accessToken, outcome) ==
    IF outcome = "error" \/ Field(outcome, "IMAGE") = Undefined
    THEN [request |-> TRUE, error |-> TRUE, postMessage |-> Undefined, postUrl |-> Undefined]
    ELSE [request |-> TRUE, error |-> FALSE,
          postMessage |-> Or(Field(outcome, "caption"), ""),
          postUrl |-> Field(outcome, "permalink")]

\* the later revision
server2GetFacebookPostDetails(postId, accessToken, outcome) ==
    IF outcome = "error"
    THEN [request |-> TRUE, error |-> TRUE,
          postMessage |-> "Unable to retrieve post content", postUrl |-> Undefined]
    ELSE [request |-> TRUE, error |-> FALSE,
          postMessage |-> Or(Field(outcome, "post message"), ""),
          postUrl |-> Field(outcome, "permalink")]

server2GetInstagramPostDetails(mediaId, accessToken, outcome) ==
    IF outcome = "error"
    THEN [request |-> TRUE, error |-> TRUE,
          postMessage |-> "Unable to retrieve post content", postUrl |-> Undefined]
    ELSE [request |-> TRUE, error |-> FALSE,
          postMessage |-> Or(Field(outcome, "caption"), ""),
          postUrl |-> Field(outcome, "permalink")]

\* what a standalone detail fetch handed back: an error object, or the fields
\* taken from the response body
ServerDetails(d) == IF d.error THEN "error object" ELSE "data"

\* sendMentionEmail: one sendMail per call; its failure is caught and logged
sendMentionEmail(n) == n + 1

Standalone == server = "server" \/ server = "server2"

\* an app.post('/webhook') that walks the entries of any object
serverPostWebhook_AnyObject ==
    /\ pc = "handler" /\ server = "server"
    /\ pc' = IF req.body.hasEntry THEN "loop" ELSE "rejected"
    /\ UNCHANGED <<registry, req, res, idx, entry, cidx, change, cur, mention,
                   calls, lastToken, emails,
                   mailed, failedEntry>>

\* webhook-server.js: app.post('/webhook') up to its loop; iterating an
\* undefined body.entry rejects the handler's promise and nothing answers
serverPostWebhook ==
    /\ pc = "handler" /\ server = "server"
    /\ IF Supported(req.body.object)
       THEN /\ pc' = IF req.body.hasEntry THEN "loop" ELSE "rejected"
            /\ res' = res
       ELSE /\ pc' = "done"
            /\ res' = SendStatus(404)
    /\ UNCHANGED <<registry, req, idx, entry, cidx, change, cur, mention,
                   calls, lastToken, emails,
                   mailed, failedEntry>>

\* the later revision: body.entry || []
server2PostWebhook ==
    /\ pc = "handler" /\ server = "server2"
    /\ IF Supported(req.body.object)
       THEN /\ pc' = "loop"
            /\ res' = res
       ELSE /\ pc' = "done"
            /\ res' = SendStatus(404)
    /\ UNCHANGED <<registry, req, idx, entry, cidx, change, cur, mention,
                   calls, lastToken, emails,
                   mailed, failedEntry>>

\* after the last entry the event is acknowledged
ServerLoopEnd ==
    /\ pc = "loop" /\ Standalone
    /\ idx = req.body.length
    /\ res' = Send(200, "EVENT_RECEIVED")
    /\ pc' = "done"
    /\ UNCHANGED <<registry, req, idx, entry, cidx, change, cur, mention,
                   calls, lastToken, emails,
                   mailed, failedEntry>>

\* the next entry: with entry.changes its changes are walked; a null entry
\* throws into the entry's catch
ServerNextEntry ==
    /\ pc = "loop" /\ Standalone
    /\ idx < req.body.length
    /\ \E e \in { NullEntry,
                  [NoEntry EXCEPT !.time = EntryTime],
                  [NoEntry EXCEPT !.hasChanges = TRUE, !.time = EntryTime] } :
        /\ entry' = e
        /\ pc' = IF e.isNull THEN "caught"
                 ELSE IF e.hasChanges THEN "changes" ELSE "loop"
        /\ failedEntry' = IF e.isNull THEN idx + 1 ELSE failedEntry
    /\ idx' = idx + 1
    /\ cidx' = 0
    /\ UNCHANGED <<registry, req, res, change, cur, mention, calls, lastToken, emails,
                   mailed>>

\* the changes of the entry are used up
ServerChangesEnd ==
    /\ pc = "changes" /\ Standalone
    /\ pc' = "loop"
    /\ UNCHANGED <<registry, req, res, idx, entry, cidx, change, cur, mention,
                   calls, lastToken, emails,
                   mailed, failedEntry>>

\* a handler that remembers an unknown mentioned_username: it registers the
\* name in instagramAccounts with the first page's token
ServerNextChange_RegistersAccount ==
    /\ pc = "changes" /\ Standalone
    /\ cidx < MaxChanges
    /\ \E c \in ServerChanges :
        LET h == CASE c.field = "mention" ->
                        IF server = "server" THEN handleMention(c.value, "facebook")
                        ELSE handleMention2(c.value, "facebook")
                   [] c.field = "mentions" ->
                        IF server = "server" THEN handleMention(c.value, "instagram")
                        ELSE handleMention2(c.value, "instagram")
                   [] c.field = "comments" ->
                        IF server = "server" THEN handleComment(c.value)
                        ELSE handleComment2(c.value)
                   [] OTHER -> Skip
            unknown == /\ c.field = "mentions" /\ c.value # NoValue
                       /\ TruthySeq(c.value.mentioned_username)
                       /\ ~HasKey(instagramAccounts,
                                  ToLowerCase(c.value.mentioned_username))
                       /\ Len(facebookPages) > 0
        IN  /\ change' = c
            /\ cur' = h.info
            /\ pc' = IF c = NullChange THEN "caught"
                     ELSE IF h.fetch THEN "fetch" ELSE "changeEnd"
            /\ failedEntry' = IF c = NullChange \/ h.threw THEN idx ELSE failedEntry
            /\ instagramAccounts' =
                 IF unknown
                 THEN Put(instagramAccounts,
                          [key |-> ToLowerCase(c.value.mentioned_username),
                           pageId |-> facebookPages[1].key,
                           token |-> facebookPages[1].token,
                           name |-> facebookPages[1].name])
                 ELSE instagramAccounts
    /\ cidx' = cidx + 1
    /\ UNCHANGED <<server, config, facebookPages, envVerifyToken,
                   req, res, idx, entry, mention, calls, lastToken, emails, mailed>>

\* the next change goes to the handler of its field, which runs to its return
\* or to the await of its detail fetch; a null change throws into the entry's catch
ServerNextChange ==
    /\ pc = "changes" /\ Standalone
    /\ cidx < MaxChanges
    /\ \E c \in ServerChanges :
        LET h == CASE c.field = "mention" ->
                        IF server = "server" THEN handleMention(c.value, "facebook")
                        ELSE handleMention2(c.value, "facebook")
                   [] c.field = "mentions" ->
                        IF server = "server" THEN handleMention(c.value, "instagram")
                        ELSE handleMention2(c.value, "instagram")
                   [] c.field = "comments" ->
                        IF server = "server" THEN handleComment(c.value)
                        ELSE handleComment2(c.value)
                   [] OTHER -> Skip
        IN  /\ change' = c
            /\ cur' = h.info
            /\ pc' = IF c = NullChange THEN "caught"
                     ELSE IF h.fetch THEN "fetch" ELSE "changeEnd"
            /\ failedEntry' = IF c = NullChange \/ h.threw THEN idx ELSE failedEntry
    /\ cidx' = cidx + 1
    /\ UNCHANGED <<registry, req, res, idx, entry, mention, calls, lastToken, emails,
                   mailed>>

\* the detail fetch answers
ServerFetch ==
    /\ pc = "fetch" /\ Standalone
    /\ \E outcome \in GraphOutcomes :
        LET postDetails ==
                CASE server = "server" /\ cur.platform = "facebook" ->
                        serverGetFacebookPostDetails(cur.postId, cur.token, outcome)
                  [] server = "server" /\ cur.platform = "instagram" ->
                        serverGetInstagramPostDetails(cur.postId, cur.token, outcome)
                  [] server = "server2" /\ cur.platform = "facebook" ->
                        server2GetFacebookPostDetails(cur.postId, cur.token, outcome)
                  [] OTHER ->
                        server2GetInstagramPostDetails(cur.postId, cur.token, outcome)
        IN  /\ cur' = [cur EXCEPT !.postContent = postDetails.postMessage,
                                  !.postUrl = postDetails.postUrl,
                                  !.error = postDetails.error,
                                  !.fetched = outcome,
                                  !.details = ServerDetails(postDetails)]
            /\ calls' = IF postDetails.request THEN calls + 1 ELSE calls
            /\ lastToken' = IF postDetails.request THEN cur.token ELSE lastToken
            /\ failedEntry' = IF postDetails.error THEN idx ELSE failedEntry
    /\ pc' = "email"
    /\ UNCHANGED <<registry, req, res, idx, entry, cidx, change, mention, emails,
                   mailed>>

\* a sendMentionEmail without its try / catch under the later revision's outer
\* catch: the rejection of sendMail ends the handler with a 500
ServerEmail_Propagates ==
    /\ pc = "email" /\ Standalone
    /\ emails' = sendMentionEmail(emails)
    /\ \E delivered \in BOOLEAN :
        /\ mailed' = Delivery(delivered)
        /\ failedEntry' = IF delivered THEN failedEntry ELSE idx
        /\ pc' = IF delivered THEN "changeEnd" ELSE "done"
        /\ res' = IF delivered THEN res ELSE Send(500, "Error processing webhook")
    /\ UNCHANGED <<registry, req, idx, entry, cidx, change, cur, mention,
                   calls, lastToken>>

\* the mention goes to sendMentionEmail: transporter.sendMail delivers or
\* rejects, and the rejection is caught and logged
ServerEmail ==
    /\ pc = "email" /\ Standalone
    /\ emails' = sendMentionEmail(emails)
    /\ \E delivered \in BOOLEAN :
        /\ mailed' = Delivery(delivered)
        /\ failedEntry' = IF delivered THEN failedEntry ELSE idx
    /\ pc' = "changeEnd"
    /\ UNCHANGED <<registry, req, res, idx, entry, cidx, change, cur, mention,
                   calls, lastToken>>

\* the body of the change loop ends: its locals go out of scope
ServerNextIteration ==
    /\ pc = "changeEnd" /\ Standalone
    /\ pc' = "changes"
    /\ change' = NoChange /\ cur' = NoCur
    /\ calls' = 0 /\ lastToken' = Undefined /\ emails' = 0 /\ mailed' = "none"
    /\ UNCHANGED <<registry, req, res, idx, entry, cidx, mention, failedEntry>>

\* a catch around the entry loop instead of inside it: the error ends the loop
ServerCatch_AroundLoop ==
    /\ pc = "caught" /\ Standalone
    /\ pc' = "done"
    /\ res' = Send(200, "EVENT_RECEIVED")
    /\ change' = NoChange /\ cur' = NoCur
    /\ UNCHANGED <<registry, req, idx, entry, cidx, mention, calls, lastToken, emails,
                   mailed, failedEntry>>

\* the entry's catch logs the error and the entry loop goes on
ServerCatch ==
    /\ pc = "caught" /\ Standalone
    /\ pc' = "loop"
    /\ change' = NoChange /\ cur' = NoCur
    /\ UNCHANGED <<registry, req, res, idx, entry, cidx, mention, calls, lastToken, emails,
                   mailed, failedEntry>>

Next ==
    \/ GetWebhook
    \/ PostWebhook
    \/ RequestEnd
    \/ ControllerNextIteration
    \/ processWebhook
    \/ ControllerLoopEnd
    \/ ProcessFacebookEntry
    \/ FetchFacebookPost
    \/ ProcessInstagramEntry
    \/ FetchInstagramMedia
    \/ FetchInstagramUser
    \/ Notify
    \/ serverPostWebhook
    \/ server2PostWebhook
    \/ ServerLoopEnd
    \/ ServerNextEntry
    \/ ServerChangesEnd
    \/ ServerNextChange
    \/ ServerFetch
    \/ ServerEmail
    \/ ServerNextIteration
    \/ ServerCatch

Spec == Init /\ [][Next]_vars

(* ------------------- getPageAccessToken on its own -------------------- *)

\* the pages a configuration may hold, in any order
LookupPages ==
    { ConfigPage(PageEnv(<<"1">>, <<"p">>, "t1", UndefinedSeq)),
      ConfigPage(PageEnv(<<"2">>, <<"q">>, "t2", <<"b">>)),
      ConfigPage(PageEnv(<<"3">>, <<"r">>, "t3", UndefinedSeq)) }
PageLists ==
    {<<>>} \cup {<<p>> : p \in LookupPages}
    \cup {l \in [1..2 -> LookupPages] : l[1] # l[2]}
    \cup {l \in [1..3 -> LookupPages] : l[1] # l[2] /\ l[1] # l[3] /\ l[2] # l[3]}
\* the pageId argument: undefined, '', the ids of pages and other ids
PageIds == {UndefinedSeq, <<>>, <<"1">>, <<"2">>, <<"3">>, <<"4">>, <<"p">>}

LookupInit ==
    /\ server = "controller"
    /\ \E ps \in PageLists :
        config = [verifyToken |-> "", pages |-> ps, businessIgUsernames |-> <<>>]
    /\ facebookPages = <<>> /\ instagramAccounts = <<>>
    /\ envVerifyToken = Undefined
    /\ req = [method |-> "none"]
    /\ res = NoResponse
    /\ pc = "idle"
    /\ Fresh

\* getPageAccessToken(pageId) is called and returns
Lookup ==
    /\ pc = "idle"
    /\ \E pageId \in PageIds :
        cur' = [NoCur EXCEPT !.pageId = pageId, !.token = getPageAccessToken(pageId)]
    /\ pc' = "lookup"
    /\ UNCHANGED <<registry, req, res, idx, entry, cidx, change, mention,
                   calls, lastToken, emails, mailed, failedEntry>>

LookupReturn ==
    /\ pc = "lookup"
    /\ cur' = NoCur
    /\ pc' = "idle"
    /\ UNCHANGED <<registry, req, res, idx, entry, cidx, change, mention,
                   calls, lastToken, emails, mailed, failedEntry>>

LookupNext == Lookup \/ LookupReturn

SpecLookup == LookupInit /\ [][LookupNext]_vars

(* ------------------------------ claims -------------------------------- *)

IsGet == req.method = "GET"
IsPost == req.method = "POST"
Acknowledged == res = Send(200, "EVENT_RECEIVED")

\* C1 as stated: a handshake with mode "subscribe" and a hub.verify_token equal to
\* the configured verify token is answered 200 with the challenge as body.
C1_Original ==
    (IsGet /\ req.query.mode = "subscribe" /\ req.query.token # Undefined
           /\ req.query.token = ConfiguredVerifyToken)
    => (res.status = 200 /\ res.body = req.query.challenge)

\* C1, amended: a handshake with mode "subscribe" and a non-empty hub.verify_token
\* equal to the configured verify token is answered 200 with the challenge as
\* body, on the controller and on both standalone servers.
C1_HandshakeEcho ==
    (IsGet /\ req.query.mode = "subscribe" /\ Truthy(req.query.token)
           /\ req.query.token = ConfiguredVerifyToken)
    => (res.status = 200 /\ res.body = req.query.challenge)

C1_Witness ==
    /\ IsGet /\ req.query.mode = "subscribe" /\ req.query.token = "v"
    /\ ConfiguredVerifyToken = "v" /\ req.query.challenge = "c1"
    /\ res = Send(200, "c1")

\* C2 as stated: with hub.mode and hub.verify_token both present, a token other
\* than the configured one, or a mode other than "subscribe", is answered 403
\* without the challenge.
C2_Original ==
    (IsGet /\ req.query.mode # Undefined /\ req.query.token # Undefined
           /\ (req.query.token # ConfiguredVerifyToken \/ req.query.mode # "subscribe"))
    => (res.status = 403 /\ res.body # req.query.challenge)

\* C2, amended: with hub.mode and hub.verify_token both present and non-empty, a
\* token other than the configured one, or a mode other than "subscribe", is
\* answered 403 without the challenge.
C2_HandshakeForbidden ==
    (IsGet /\ Truthy(req.query.mode) /\ Truthy(req.query.token)
           /\ (req.query.token # ConfiguredVerifyToken \/ req.query.mode # "subscribe"))
    => (res.status = 403 /\ res.body # req.query.challenge)

C2_Witness ==
    /\ IsGet /\ req.query.mode = "unsubscribe" /\ req.query.token = "v"
    /\ ConfiguredVerifyToken = "v" /\ req.query.challenge = "c1"
    /\ res.status = 403

\* C3: a handshake without hub.mode or without hub.verify_token is answered 400
\* by the controller and 404 by the standalone servers, never 200 and never with
\* the challenge, whatever the other parameters are.
C3_HandshakeMissing ==
    (IsGet /\ (req.query.mode = Undefined \/ req.query.token = Undefined))
    => /\ res.status = (IF server = "controller" THEN 400 ELSE 404)
       /\ res.status # 200
       /\ res.body # req.query.challenge

C3_Witness ==
    /\ IsGet /\ req.query.mode = Undefined /\ req.query.token = "v"
    /\ ConfiguredVerifyToken = "v" /\ req.query.challenge = "c1"
    /\ res.status = 404

\* C4 as stated: on every POST, no entry is dispatched, no detail fetch made and
\* no notification sent before the 200 "EVENT_RECEIVED" acknowledgement.
C4_AckBeforeDispatch ==
    (IsPost /\ (idx > 0 \/ cidx > 0 \/ calls > 0 \/ emails > 0)) => Acknowledged

\* C5 as stated: once the handler of a POST with object "page" or "instagram" is
\* through, the response is 200 "EVENT_RECEIVED", whatever the entries were.
C5_AlwaysAcknowledged ==
    (IsPost /\ Supported(req.body.object) /\ pc \in {"done", "rejected"})
    => Acknowledged

\* C6: a POST whose object is neither "page" nor "instagram" has no entry passed
\* to an extractor, no Graph API request and no notification; it is answered 200
\* by the controller and 404 by the standalone servers.
C6_UnsupportedObjectIgnored ==
    (IsPost /\ ~Supported(req.body.object))
    => /\ idx = 0 /\ cidx = 0 /\ calls = 0 /\ emails = 0
       /\ mention = NoMention
       /\ pc \in {"handler", "done"}
       /\ pc = "done" => res.status = (IF server = "controller" THEN 200 ELSE 404)

C6_Witness ==
    /\ IsPost /\ req.body.object = "user" /\ req.body.hasEntry
    /\ server = "server" /\ pc = "done" /\ res.status = 404

\* the controller is inside the body of its entry loop
InEntry ==
    /\ server = "controller" /\ IsPost
    /\ pc \in {"iterEnd", "fetchPost", "fetchMedia", "fetchUser", "notify"}
HasFirstChange == entry.hasChanges /\ Len(entry.changes) > 0
FirstValue == entry.changes[1].value
\* the comment text of the change the extractor looks at
FirstText ==
    LET raw == IF req.body.object = "page" THEN FirstValue.message ELSE FirstValue.text
    IN  IF raw = UndefinedSeq THEN <<>> ELSE raw
\* the text holds `@u` for a configured username u
NamesUsername(text) ==
    \E i \in 1..Len(config.businessIgUsernames) :
        Includes(text, <<"@">> \o config.businessIgUsernames[i])
\* the text holds `@name` or `@[id]` for a configured page
NamesPage(text) ==
    \E i \in 1..Len(config.pages) :
        \/ Includes(text, <<"@">> \o config.pages[i].name)
        \/ Includes(text, <<"@", "[">> \o config.pages[i].id \o <<"]">>)
NamesAccount(text) ==
    NamesUsername(text) \/ (req.body.object = "page" /\ NamesPage(text))
NoSideEffect ==
    mention = NoMention /\ calls = 0 /\ emails = 0 /\ pc = "iterEnd"

\* C7: processFacebookWebhook / processInstagramWebhook return a record only for
\* a text that holds "@" + a configured username (on Facebook also "@" + a page
\* name or "@[" + a page id + "]"); for any other text there is no record, no
\* Graph API request and no notification.
C7_RecordOnlyForMention ==
    InEntry =>
        /\ mention # NoMention =>
              /\ HasFirstChange /\ FirstValue # NoValue
              /\ mention.commentText = FirstText
              /\ NamesAccount(FirstText)
        /\ (HasFirstChange /\ FirstValue # NoValue /\ ~NamesAccount(FirstText))
              => NoSideEffect

C7_Witness ==
    /\ InEntry /\ req.body.object = "page" /\ HasFirstChange
    /\ entry.changes[1].field = "feed" /\ FirstValue # NoValue
    /\ FirstValue.item = "comment"
    /\ FirstText = <<"@", "A", "@", "b">>
    /\ config.businessIgUsernames = <<"a">>
    /\ NoSideEffect

\* the field / type the platform's extractor expects
ExpectedChange(c) ==
    IF req.body.object = "page"
    THEN c.field = "feed" /\ c.value # NoValue /\ c.value.item = "comment"
    ELSE c.field = "comments"

\* C8: for a change whose field / type is not the expected one (Facebook: feed
\* with item comment; Instagram: comments) there is no record, no Graph API
\* request and no notification, also when its text names a configured username.
C8_UnexpectedChangeIgnored ==
    InEntry =>
        /\ (HasFirstChange /\ ~ExpectedChange(entry.changes[1])) => NoSideEffect
        /\ ~HasFirstChange => NoSideEffect

C8_Witness ==
    /\ InEntry /\ req.body.object = "page" /\ HasFirstChange
    /\ entry.changes[1].field = "feed" /\ FirstValue # NoValue
    /\ FirstValue.item = "post"
    /\ NamesUsername(FirstText)
    /\ NoSideEffect

\* C9: when the text the extractor looks at holds "@" + u for a configured
\* username u, the selected username is the configured username listed first
\* among those the text holds, wherever each stands in the text.
C9_FirstMatch ==
    (InEntry /\ HasFirstChange /\ ExpectedChange(entry.changes[1])
             /\ FirstValue # NoValue /\ NamesUsername(FirstText))
    => LET us == config.businessIgUsernames
           hits == {i \in 1..Len(us) : Includes(FirstText, <<"@">> \o us[i])}
           first == CHOOSE i \in hits : \A j \in hits : i <= j
       IN  /\ cur.username = us[first]
           /\ mention # NoMention => mention.mentionedUsername = us[first]

C9_Witness ==
    /\ InEntry /\ HasFirstChange /\ ExpectedChange(entry.changes[1])
    /\ FirstValue # NoValue
    /\ FirstText = <<"@", "a", "@", "b">>
    /\ config.businessIgUsernames = << <<"b">>, <<"a">> >>
    /\ mention # NoMention /\ mention.mentionedUsername = <<"b">>

\* C10 as stated: no detail fetch issues a network request with an empty or
\* missing access token.
C10_NoRequestWithoutToken ==
    calls > 0 => Truthy(lastToken)

\* a detail fetch of this iteration has answered
Fetched == cur.fetched # Undefined
FailureIndicator == IF server = "controller" THEN Null ELSE "error object"

\* C11 as stated: a detail fetch never raises into its caller; on a transport or
\* API error it hands back a failure indicator (null in the services, an error
\* object in the standalone servers) and on a successful response it hands back
\* data taken from the response body.
C11_FetchNeverRaises ==
    /\ Fetched =>
          /\ pc \in {"fetchUser", "notify", "iterEnd", "email", "changeEnd"}
          /\ cur.fetched = "error" => cur.details = FailureIndicator
          /\ cur.fetched # "error" => cur.details = "data"
    /\ cur.taggerFetched # Undefined =>
          /\ pc \in {"notify", "iterEnd"}
          /\ cur.taggerFetched = "error" => cur.taggerDetails = Null
          /\ cur.taggerFetched # "error" => cur.taggerDetails = "data"

\* C12: a failed delivery of a notification leaves the response of the POST as
\* it is (the controller has acknowledged, the standalone servers acknowledge
\* after the loop as they do after a delivery), ends in the loop body going on
\* rather than in an exception leaving the handler, and is attempted once only.
C12_DeliveryFailureSwallowed ==
    /\ mailed = "failed" =>
          /\ emails = 1
          /\ pc = (IF server = "controller" THEN "iterEnd" ELSE "changeEnd")
          /\ res = (IF server = "controller" THEN Send(200, "EVENT_RECEIVED")
                    ELSE NoResponse)
    /\ (IsPost /\ pc = "done" /\ failedEntry > 0) => Acknowledged
    /\ (IsPost /\ failedEntry > 0) => pc # "rejected"

C12_Witness ==
    /\ IsPost /\ server = "server2" /\ pc = "changeEnd"
    /\ mailed = "failed" /\ emails = 1 /\ res = NoResponse

\* C13: whatever failed while an entry of a POST was processed (the extractor
\* or handler threw, a detail fetch failed, the delivery failed), the handler
\* ends only after the loop has taken every entry of the payload.
C13_FailuresIsolated ==
    /\ failedEntry <= idx
    /\ (IsPost /\ failedEntry > 0 /\ pc = "done") => idx = req.body.length
    /\ (IsPost /\ failedEntry > 0 /\ pc = "loop" /\ idx < req.body.length)
          => (cur = NoCur /\ mention = NoMention /\ mailed = "none")

C13_Witness ==
    /\ IsPost /\ failedEntry = 1 /\ idx = 2
    /\ mailed = "sent" /\ emails = 1

\* C14: when the post / media fetch of a detected mention fails, the extractor
\* still returns its record, with postContent and postUrl left undefined, and the
\* record still goes to the notifier.
C14_PartialRecordSent ==
    (server = "controller" /\ IsPost /\ cur.fetched = "error") =>
        /\ pc \in {"fetchUser", "notify", "iterEnd"}
        /\ pc \in {"notify", "iterEnd"} =>
              /\ mention # NoMention
              /\ mention.postContent = Undefined
              /\ mention.postUrl = Undefined
              /\ mention.commentText = FirstText
        /\ pc = "iterEnd" => emails = 1

C14_Witness ==
    /\ server = "controller" /\ IsPost /\ req.body.object = "page"
    /\ cur.fetched = "error" /\ pc = "iterEnd"
    /\ mention # NoMention /\ mention.postUrl = Undefined
    /\ emails = 1

\* a mention was detected in this iteration and no access token is available for
\* the account it names
NoCredentials == cur.platform # "" /\ ~Truthy(cur.token)

\* C15 as stated: when no access token is available for the account an entry
\* involves, no notification is sent for that entry, and the loop still takes the
\* entries after it.
C15_NoCredentialsSkipped ==
    /\ (IsPost /\ NoCredentials) =>
          /\ mention = NoMention /\ emails = 0
          /\ pc \notin {"notify", "email"}
    /\ (IsPost /\ pc = "done" /\ idx > 0) => idx = req.body.length

\* the comment text of a change, as the platform's extractor would read it
TextOf(c) ==
    LET raw == IF req.body.object = "page" THEN c.value.message ELSE c.value.text
    IN  IF raw = UndefinedSeq THEN <<>> ELSE raw
\* a change of the expected field / type whose text names a configured account
Qualifying(c) == ExpectedChange(c) /\ c.value # NoValue /\ NamesAccount(TextOf(c))
QualifyingChanges == {i \in 1..Len(entry.changes) : Qualifying(entry.changes[i])}
RecordsProduced == IF mention # NoMention THEN 1 ELSE 0

\* C16 as stated: when the controller is through with an entry, one record has
\* been produced for each qualifying change of the entry, and each record has
\* gone to the notifier once.
C16_OneRecordPerChange ==
    (InEntry /\ pc = "iterEnd") =>
        /\ RecordsProduced = Cardinality(QualifyingChanges)
        /\ emails = RecordsProduced

\* the configured pages whose id is the id looked up
LookupMatches == {i \in 1..Len(config.pages) : config.pages[i].id = cur.pageId}

\* C17: getPageAccessToken returns the token of the configured page with the
\* given id; for an absent or unmatched id the token of the first configured
\* page; and '' exactly when no page is configured.
C17_TokenLookup ==
    pc = "lookup" =>
        /\ LookupMatches # {} =>
              \E i \in LookupMatches :
                  /\ cur.token = config.pages[i].pageAccessToken
                  /\ \A j \in LookupMatches : i <= j
        /\ (LookupMatches = {} /\ Len(config.pages) > 0) =>
              cur.token = config.pages[1].pageAccessToken
        /\ cur.token = "" <=> Len(config.pages) = 0

C17_Witness ==
    /\ pc = "lookup" /\ Len(config.pages) = 2
    /\ cur.pageId = <<"4">>
    /\ config.pages[1].id = <<"2">>
    /\ cur.token = "t2"

\* the controller is through the matching of a Facebook feed comment
InFacebookComment ==
    /\ InEntry /\ req.body.object = "page"
    /\ HasFirstChange /\ ExpectedChange(entry.changes[1])
\* the configured pages the text names, by position in the configuration
PagesNamed(text) ==
    { i \in 1..Len(config.pages) :
        \/ Includes(text, <<"@">> \o config.pages[i].name)
        \/ Includes(text, <<"@", "[">> \o config.pages[i].id \o <<"]">>) }
FirstPageNamed(text) ==
    config.pages[CHOOSE i \in PagesNamed(text) : \A j \in PagesNamed(text) : i <= j]

\* C18: on the Facebook path, a text that holds no configured username but names
\* a configured page yields a record; its mentionedUsername is the page's linked
\* Instagram username, or empty when the page has none; and the post is fetched
\* with that page's token.
C18_PageMention ==
    (InFacebookComment /\ ~NamesUsername(FirstText) /\ NamesPage(FirstText)) =>
        LET page == FirstPageNamed(FirstText)
            expected == IF page.instagramUsername = UndefinedSeq THEN <<>>
                        ELSE page.instagramUsername
        IN  /\ pc \in {"fetchPost", "notify", "iterEnd"}
            /\ cur.pageId = page.id /\ cur.username = expected
            /\ cur.token = page.pageAccessToken
            /\ pc \in {"notify", "iterEnd"} =>
                  /\ mention # NoMention
                  /\ mention.mentionedUsername = expected
                  /\ calls = (IF Truthy(FirstValue.post_id) THEN 1 ELSE 0)
                  /\ calls = 1 => lastToken = page.pageAccessToken

C18_Witness ==
    /\ InFacebookComment /\ ~NamesUsername(FirstText) /\ NamesPage(FirstText)
    /\ FirstPageNamed(FirstText).instagramUsername = UndefinedSeq
    /\ pc = "notify" /\ mention # NoMention /\ mention.mentionedUsername = <<>>
    /\ calls = 1 /\ lastToken = "t1"

\* C19: for a Facebook entry whose first change is a feed comment with a message
\* that holds "@" + u for a configured username u, processFacebookWebhook returns
\* one record: platform "facebook", mentionedUsername the configured username
\* listed first among those the message holds, commentText the message as given,
\* timestamp the entry's time.
C19_FacebookRecord ==
    (InFacebookComment /\ NamesUsername(FirstText)) =>
        LET us == config.businessIgUsernames
            hits == {i \in 1..Len(us) : Includes(FirstText, <<"@">> \o us[i])}
            first == CHOOSE i \in hits : \A j \in hits : i <= j
        IN  /\ pc \in {"fetchPost", "notify", "iterEnd"}
            /\ pc \in {"notify", "iterEnd"} =>
                  /\ mention # NoMention
                  /\ mention.platform = "facebook"
                  /\ mention.mentionedUsername = us[first]
                  /\ mention.commentText = FirstValue.message
                  /\ mention.timestamp = entry.time
            /\ pc = "iterEnd" => emails = 1

C19_Witness ==
    /\ InFacebookComment /\ pc = "iterEnd" /\ emails = 1
    /\ FirstValue.message = <<"@", "A", "@", "b">>
    /\ config.businessIgUsernames = << <<"b">>, <<"a">> >>
    /\ mention # NoMention
    /\ mention.platform = "facebook"
    /\ mention.mentionedUsername = <<"b">>
    /\ mention.commentText = <<"@", "A", "@", "b">>
    /\ mention.timestamp = EntryTime

\* nothing of an entry is under way: no record waits for its fetch or its
\* notification
NothingUnderWay ==
    /\ cur = NoCur /\ mention = NoMention
    /\ calls = 0 /\ emails = 0 /\ mailed = "none"

\* C20: the entries of a POST are taken one after the other in payload order; an
\* entry is taken only from the head of the loop, when the fetches and the
\* notification of the entry before it are through.
C20_SequentialEntries ==
    [][(req'.method = "POST" /\ idx' # idx) =>
          (idx' = idx + 1 /\ pc = "loop" /\ NothingUnderWay)]_vars

C20_Witness ==
    /\ IsPost /\ server = "controller" /\ idx = 2 /\ failedEntry = 1
    /\ pc = "fetchPost" /\ calls = 0 /\ emails = 0

(* C21: no handler step (handshake, event processing, extraction, fetch,
   notification) modifies the account registry built at startup, and every
   request starts from the same fresh handler state: the registry is the only
   thing two requests share, so what a request answers, records and notifies
   is the same whatever else the server handles *)
C21_RegistryReadOnly ==
    [][ /\ registry' = registry
        /\ pc' = "idle" => (Fresh' /\ res' = NoResponse) ]_vars

\* a POST has walked all its entries against a registry that holds accounts
C21_Witness ==
    /\ pc = "done" /\ IsPost
    /\ req.body.length > 0 /\ idx = req.body.length
    /\ Len(instagramAccounts) > 0
    /\ Len(config.businessIgUsernames) > 0

\* the text holds `@u` for a configured username u up to letter case
NamesUsernameInAnyCase(text) ==
    \E i \in 1..Len(config.businessIgUsernames) :
        Includes(ToLowerCase(text), At(ToLowerCase(config.businessIgUsernames[i])))

(* C22: in processFacebookWebhook and processInstagramWebhook the username
   match is case-sensitive: a comment that holds a configured username only in
   another letter case, and no other configured reference, yields no record
   (and no request and no notification); a record made on a username match
   names a username that stands in the text letter for letter *)
C22_CaseSensitiveMatch ==
    (InEntry /\ HasFirstChange /\ ExpectedChange(entry.changes[1])
             /\ FirstValue # NoValue)
    => /\ (NamesUsernameInAnyCase(FirstText) /\ ~NamesAccount(FirstText))
              => NoSideEffect
       /\ (mention # NoMention /\ NamesUsername(FirstText))
              => Includes(FirstText, At(mention.mentionedUsername))

\* an Instagram comment "@A" with the usernames b and a configured: no record
C22_Witness ==
    /\ InEntry /\ req.body.object = "instagram" /\ HasFirstChange
    /\ entry.changes[1].field = "comments" /\ FirstValue # NoValue
    /\ FirstText = At(<<"A">>)
    /\ config.businessIgUsernames = << <<"b">>, <<"a">> >>
    /\ NoSideEffect

\* a standalone handler has been given the change and has reached its await or
\* returned
InChange ==
    /\ Standalone /\ IsPost
    /\ pc \in {"fetch", "email", "changeEnd"}
    /\ change.value # NoValue
\* message || text of a comments change
ChangeMessage == OrSeq(change.value.message, change.value.text)
\* the registry keys that the text names with "@", compared in lower case
KeysNamed(text) ==
    { i \in 1..Len(instagramAccounts) :
        Includes(ToLowerCase(text), At(instagramAccounts[i].key)) }

(* C23: in the standalone servers the account lookup by username ignores
   letter case: every key of the Instagram registry is lower-case; a comment
   whose text holds "@" + a key in any letter case makes handleComment go on
   with the first such account and its token; a mentions event whose
   mentioned_username equals a key up to letter case makes handleMention go on
   with that account's token *)
C23_CaseInsensitiveLookup ==
    /\ \A i \in 1..Len(instagramAccounts) :
          instagramAccounts[i].key = ToLowerCase(instagramAccounts[i].key)
    /\ (InChange /\ change.field = "comments" /\ TruthySeq(ChangeMessage)
                 /\ KeysNamed(ChangeMessage) # {})
       => LET first == CHOOSE i \in KeysNamed(ChangeMessage) :
                          \A j \in KeysNamed(ChangeMessage) : i <= j
          IN  /\ cur.platform # ""
              /\ cur.username = instagramAccounts[first].key
              /\ cur.token = instagramAccounts[first].token
    /\ (InChange /\ change.field = "mentions"
                 /\ TruthySeq(change.value.mentioned_username)
                 /\ HasKey(instagramAccounts,
                           ToLowerCase(change.value.mentioned_username)))
       => /\ cur.platform = "instagram"
          /\ cur.token = Get(instagramAccounts,
                             ToLowerCase(change.value.mentioned_username)).token

\* webhook-server.js is told that "A" was mentioned and fetches with the token
\* of the account registered as "a"
C23_Witness ==
    /\ InChange /\ server = "server" /\ pc = "fetch"
    /\ change.field = "mentions"
    /\ change.value.mentioned_username = <<"A">>
    /\ HasKey(instagramAccounts, <<"a">>)
    /\ cur.token = Get(instagramAccounts, <<"a">>).token

(* C24: processFacebookWebhook and processInstagramWebhook look at the first
   change of an entry only: a record is the record of the first change, an
   entry whose first change does not qualify yields no record, no request and
   no notification whatever its later changes are, and processWebhook hands at
   most one record of an entry to the notifier *)
C24_FirstChangeOnly ==
    InEntry =>
        /\ mention # NoMention =>
              /\ HasFirstChange /\ Qualifying(entry.changes[1])
              /\ mention.commentText = TextOf(entry.changes[1])
        /\ (HasFirstChange /\ ~Qualifying(entry.changes[1])) => NoSideEffect
        /\ emails <= 1
        /\ pc = "iterEnd" => emails = RecordsProduced

\* the first change is a feed post, a later change is a qualifying comment, and
\* the entry is over with nothing produced
C24_Witness ==
    /\ InEntry /\ req.body.object = "page" /\ HasFirstChange
    /\ ~Qualifying(entry.changes[1])
    /\ QualifyingChanges # {}
    /\ FirstValue # NoValue /\ FirstValue.item = "post"
    /\ NoSideEffect

(* C25: in processFacebookWebhook a username match goes before a page match:
   for a text that holds both "@" + a configured username and a reference to a
   configured page, the mentioned page id stays empty, the username is the one
   matched by name, and the token of the post-detail fetch is the token of the
   first configured page, whichever page the username is linked to *)
C25_UsernameBeforePage ==
    (InFacebookComment /\ NamesUsername(FirstText) /\ NamesPage(FirstText))
    => /\ cur.pageId = <<>>
       /\ cur.username = MentionedUsername(FirstText)
       /\ cur.token = config.pages[1].pageAccessToken
       /\ calls > 0 => lastToken = config.pages[1].pageAccessToken

\* the text names the username b and the page q, b is linked to the second
\* page, and the post was fetched with the first page's token
C25_Witness ==
    /\ InFacebookComment
    /\ Includes(FirstText, At(<<"b">>)) /\ Includes(FirstText, At(<<"q">>))
    /\ cur.username = <<"b">>
    /\ Len(config.pages) = 2
    /\ config.pages[2].name = <<"q">>
    /\ config.pages[2].instagramUsername = <<"b">>
    /\ calls = 1 /\ lastToken = config.pages[1].pageAccessToken
    /\ config.pages[2].pageAccessToken # lastToken

\* META_VERIFY_TOKEN is unset or empty
VerifyTokenUnset == ~Truthy(ConfiguredVerifyToken)

(* C26: a handshake whose hub.verify_token is empty is never verified: it is
   answered as missing parameters (400 by the controller, 404 by the standalone
   servers), also when the configured verify token is empty as well; and with
   an unset verify token no handshake is answered 200 *)
C26_EmptyTokenNeverVerified ==
    IsGet =>
        /\ req.query.token = "" =>
              res = SendStatus(IF server = "controller" THEN 400 ELSE 404)
        /\ VerifyTokenUnset => res.status # 200

\* the controller runs with the default verify token '' and is asked to
\* subscribe with an empty hub.verify_token: 400
C26_Witness ==
    /\ IsGet /\ server = "controller"
    /\ req.query.mode = "subscribe" /\ req.query.token = ""
    /\ req.query.challenge = "c1"
    /\ config.verifyToken = ""
    /\ res = SendStatus(400)

\* a standalone handleMention has been given an Instagram mention and has
\* reached its await or returned
InInstagramMention ==
    /\ InChange /\ change.field = "mentions"
\* the username handleMention goes on with: the mentioned_username given, or
\* the only configured account when none is given
GivenOrDefaulted ==
    IF TruthySeq(change.value.mentioned_username)
    THEN change.value.mentioned_username
    ELSE IF Len(instagramAccounts) = 1 THEN instagramAccounts[1].key
    ELSE UndefinedSeq
\* the handler returned without a detail fetch and without an email
NothingSent ==
    /\ pc = "changeEnd" /\ cur = NoCur /\ calls = 0 /\ emails = 0

(* C27 as stated: in a standalone server's handleMention, for an Instagram
   mention without mentioned_username, the only configured account is used and
   a notification is sent when exactly one account is configured, and nothing
   is fetched or mailed when none or several are; whenever the given or
   defaulted username has no configured account nothing is fetched or mailed,
   and no exception leaves the handler *)
C27_MentionFallback ==
    InInstagramMention =>
        /\ (~TruthySeq(change.value.mentioned_username)
                /\ Len(instagramAccounts) = 1)
           => /\ cur.platform = "instagram"
              /\ cur.token = instagramAccounts[1].token
              /\ pc = "changeEnd" => emails = 1
        /\ (~TruthySeq(change.value.mentioned_username)
                /\ Len(instagramAccounts) # 1)
           => NothingSent
        /\ (GivenOrDefaulted = UndefinedSeq
                \/ ~HasKey(instagramAccounts, ToLowerCase(GivenOrDefaulted)))
           => NothingSent

====
